---- MODULE Spec2Model ----
(***************************************************************************)
(* gen_known_imports: reads proto.csv, builds the ordered list of          *)
(* (import, label) bindings and writes known_imports.go.                   *)
(*                                                                         *)
(* Text is modelled as sequences of characters.  A character is a string:  *)
(* the separators the program and its libraries look at (",", "#", " ",    *)
(* "@", "//", ":") are characters of their own, and a maximal run of other *)
(* characters ("k1", "p", "x", ...) is written as one word.  A file is the *)
(* sequence of its lines.  The inputs contain no double quote, so the      *)
(* quoted-field rules of encoding/csv are never exercised.                 *)
(***************************************************************************)
EXTENDS Integers, Sequences, FiniteSets, TLC

(* ------------------------------ bounds -------------------------------- *)

\* Longest input file, in lines.
MaxLines == 3

\* Largest value of the -key and -value flags that is tried.
MaxCol == 4

\* Number of consecutive invocations of the program on the same file system.
MaxRuns == 2

(* ------------------------ program constants --------------------------- *)

\* r.FieldsPerRecord = 4
FieldsPerRecord == 4

\* r.Comment = '#'
Comment == "#"

\* log.SetPrefix(progName + ": ")
progName == "gen_known_imports"

NoLabel == [Repo |-> "", Pkg |-> "", Name |-> ""]

\* An error value: its kind and what its message names.  Nil is "no error".
\* str is the string the message quotes (the flag, the key, the value), a and b
\* the labels it prints, line the input line it points at.
Error(kind, str, a, b, line) ==
  [kind |-> kind, str |-> str, a |-> a, b |-> b, line |-> line]
Nil == Error("nil", <<>>, NoLabel, NoLabel, 0)

\* A path of the file system holds a file (its lines) or nothing.
File(lines) == [exists |-> TRUE, lines |-> lines]
NoFile == [exists |-> FALSE, lines |-> <<>>]

Special == {",", "#", " ", "@", "//", ":", "\"", "\t"}

(* --------------------------- encoding/csv ----------------------------- *)

\* Variant: blanks before the comment character are skipped first.
RECURSIVE IsCommentLineTrimmed(_)
IsCommentLineTrimmed(line) ==
  /\ Len(line) > 0
  /\ IF line[1] \in {" ", "\t"} THEN IsCommentLineTrimmed(Tail(line))
     ELSE line[1] = Comment

\* readRecord: a line whose first character is the comment character is
\* skipped; nothing is trimmed before the test.
IsCommentLine(line) == Len(line) > 0 /\ line[1] = Comment

\* readRecord: an empty line is skipped.
IsEmptyLine(line) == Len(line) = 0

\* The fields of a line: split at every comma (TrimLeadingSpace is off, so
\* blanks stay in the field).
RECURSIVE SplitFields(_)
SplitFields(line) ==
  IF \E i \in 1..Len(line) : line[i] = ","
  THEN LET i == CHOOSE n \in 1..Len(line) :
                  line[n] = "," /\ \A m \in 1..(n-1) : line[m] # ","
       IN <<SubSeq(line, 1, i-1)>> \o SplitFields(SubSeq(line, i+1, Len(line)))
  ELSE <<line>>

\* ReadAll: records in line order; the first record whose field count is not
\* FieldsPerRecord ends the read with ErrFieldCount and no records.
RECURSIVE ReadFrom(_, _, _)
ReadFrom(lines, n, acc) ==
  IF n > Len(lines) THEN [records |-> acc, err |-> Nil]
  ELSE IF IsCommentLine(lines[n]) \/ IsEmptyLine(lines[n])
       THEN ReadFrom(lines, n + 1, acc)
  ELSE LET rec == SplitFields(lines[n])
       IN IF Len(rec) # FieldsPerRecord
          THEN [records |-> <<>>,
                err |-> Error("fieldcount", <<>>, NoLabel, NoLabel, n)]
          ELSE ReadFrom(lines, n + 1, Append(acc, rec))

\* Variant: FieldsPerRecord is not enforced.
RECURSIVE ReadAnyCount(_, _, _)
ReadAnyCount(lines, n, acc) ==
  IF n > Len(lines) THEN [records |-> acc, err |-> Nil]
  ELSE IF IsCommentLine(lines[n]) \/ IsEmptyLine(lines[n])
       THEN ReadAnyCount(lines, n + 1, acc)
  ELSE ReadAnyCount(lines, n + 1, Append(acc, SplitFields(lines[n])))

ReadAllAnyCount(lines, ioFails) ==
  IF ioFails THEN [records |-> <<>>, err |-> Error("read", <<>>, NoLabel, NoLabel, 0)]
  ELSE ReadAnyCount(lines, 1, <<>>)

ReadAll(lines, ioFails) ==
  IF ioFails THEN [records |-> <<>>, err |-> Error("read", <<>>, NoLabel, NoLabel, 0)]
  ELSE ReadFrom(lines, 1, <<>>)

(* ------------------------------ label --------------------------------- *)

IsWord(c) == c \notin Special

\* label.Parse: [@repo] // [pkg] [:name], or the relative forms name, :name.
\* A missing name defaults to the package.
Parse(s) ==
  LET hasRepo == Len(s) >= 1 /\ s[1] = "@"
      repoOk  == ~hasRepo \/ (Len(s) >= 3 /\ IsWord(s[2]) /\ s[3] = "//")
      repo    == IF hasRepo /\ repoOk THEN s[2] ELSE ""
      s1      == IF hasRepo /\ repoOk THEN SubSeq(s, 3, Len(s)) ELSE s
      hasPkg  == Len(s1) >= 1 /\ s1[1] = "//"
      s2      == IF hasPkg THEN Tail(s1) ELSE s1
      pkg     == IF hasPkg /\ Len(s2) >= 1 /\ IsWord(s2[1]) THEN s2[1] ELSE ""
      s3      == IF pkg # "" THEN Tail(s2) ELSE s2
      name    == IF Len(s3) = 2 /\ s3[1] = ":" /\ IsWord(s3[2]) THEN s3[2]
                 ELSE IF Len(s3) = 1 /\ IsWord(s3[1]) /\ ~hasPkg /\ ~hasRepo
                      THEN s3[1]
                 ELSE ""
      ok      == /\ repoOk
                 /\ (s3 = <<>> \/ name # "")
                 /\ (pkg # "" \/ name # "")
  IN IF ok
     THEN [lbl |-> [Repo |-> repo, Pkg |-> pkg,
                    Name |-> IF name = "" THEN pkg ELSE name],
           err |-> Nil]
     ELSE [lbl |-> NoLabel, err |-> Error("parse", s, NoLabel, NoLabel, 0)]

\* Label.Equal: structural.
Equal(a, b) == a.Repo = b.Repo /\ a.Pkg = b.Pkg /\ a.Name = b.Name

(* ------------------------- knownImportsTpl ---------------------------- *)

\* %q of a string without characters that need escaping.
Quote(s) == <<"\"">> \o s \o <<"\"">>

\* {{printf "%q: label.New(%q, %q, %q)" ...}}, after a tab, before a comma.
BindingLine(b) ==
  <<"\t">> \o Quote(b.Import) \o <<":", " ", "label.New(">>
    \o Quote(<<b.Label.Repo>>) \o <<",", " ">>
    \o Quote(<<b.Label.Pkg>>) \o <<",", " ">>
    \o Quote(<<b.Label.Name>>) \o <<")", ",">>

\* The range body starts with a newline and {{- end}} trims nothing, so the
\* bindings follow one empty line, one per line.
BindingLines(bs) ==
  IF bs = <<>> THEN <<>>
  ELSE << <<>> >> \o [n \in 1..Len(bs) |-> BindingLine(bs[n])]

\* knownImportsTpl.Execute(buf, data)
Execute(d) ==
  << <<>>,
     <<"//", " ", "Generated by internal/language/proto/gen/gen_known_imports.go">>,
     <<"//", " ", "From", " ", d.ProtoCsv>>,
     <<>>,
     <<"package", " ", d.Package>>,
     <<>>,
     <<"import", " ", "\"", "github.com/bazelbuild/bazel-gazelle/internal/label", "\"">>,
     <<>>,
     <<"var", " ", d.Var, " ", "=", " ", "map[string]label.Label{">> >>
  \o BindingLines(d.Bindings)
  \o << <<"}">> >>

(* ------------------------------ inputs -------------------------------- *)

protoCsv == "proto.csv"
knownImportsGo == "known_imports.go"
Paths == {protoCsv, knownImportsGo}

\* A data line: its fields joined by commas.
RECURSIVE Join(_)
Join(fields) ==
  IF Len(fields) = 0 THEN <<>>
  ELSE IF Len(fields) = 1 THEN fields[1]
  ELSE fields[1] \o <<",">> \o Join(Tail(fields))

LabelPP == <<"//", "p", ":", "p">>
LabelP  == <<"//", "p">>
LabelPN == <<"//", "p", ":", "n">>
LabelR  == <<"@", "r", "//", "p", ":", "p">>

Row(key, value) == Join(<<key, value, <<"x">>, <<"x">>>>)

\* The lines input files are made of.
DataLines ==
  { Row(<<"k1">>, LabelPP), Row(<<"k1">>, LabelP), Row(<<"k1">>, LabelPN),
    Row(<<"k1">>, <<>>), Row(<<"k2">>, LabelR) }
ShortLine == Join(<<<<"k2">>, LabelPP, <<"x">>>>)
OtherLines ==
  { <<"#">> \o Row(<<"k1">>, LabelPN),
    <<" ", "#">> \o Row(<<"k2">>, LabelPP),
    <<" ", "#", "note">>,
    <<>>,
    ShortLine }
Lines == DataLines \cup OtherLines

SeqsUpTo(S, n) == UNION { [1..m -> S] : m \in 0..n }

\* What an earlier generation may have left at a path.
OldOutput ==
  Execute([ProtoCsv |-> protoCsv, Package |-> "old", Var |-> "Old",
           Bindings |-> <<>>])

Args(pc_, ki, pk, vr, k, v) ==
  [proto_csv |-> pc_, known_imports |-> ki, package |-> pk, var |-> vr,
   key |-> k, value |-> v]

\* fs.IntVar(&keyColumn, "key", 0, ...), fs.IntVar(&valueColumn, "value", 1, ...)
DefaultArgs == Args(protoCsv, knownImportsGo, "proto", "KnownImports", 0, 1)

(* ------------------------------- state -------------------------------- *)

VARIABLES
  fs,         \* the file system: path -> file
  args,       \* the parsed command line
  ioRead,     \* the environment fails reads of the input
  ioWrite,    \* the environment fails writes of the output
  pc,         \* where main/run stands
  handle,     \* protoCsvFile: "none", "open", "closed"
  closes,     \* calls of protoCsvFile.Close() in this run
  res,        \* records, err of r.ReadAll()
  i,          \* rows of records the loop has taken
  seen,       \* seen: import -> label
  bindings,   \* data.Bindings
  buf,        \* knownImportsBuf
  err,        \* the error run returns
  exit,       \* the process's end: status and what went to the error stream
  steps,      \* this run's calls: column reads, label.Parse, WriteFile
  fs0,        \* the file system when this run started
  run,        \* number of this invocation
  prev        \* the previous invocation: its input, error, status, output

vars == <<fs, args, ioRead, ioWrite, pc, handle, closes, res, i, seen,
          bindings, buf, err, exit, steps, fs0, run, prev>>

env == <<args, ioRead, ioWrite>>

Running == [status |-> -1, prefix |-> "", err |-> Nil, trace |-> FALSE]
NoSteps == [colReads |-> 0, parses |-> 0, writes |-> 0]
NoPrev == [input |-> NoFile, err |-> Nil, status |-> -1, output |-> NoFile]
NoRes == [records |-> <<>>, err |-> Nil]
Empty == [k \in {} |-> NoLabel]

\* The state main starts in.
Start ==
  /\ pc = "flags"
  /\ handle = "none"
  /\ closes = 0
  /\ res = NoRes
  /\ i = 0
  /\ seen = Empty
  /\ bindings = <<>>
  /\ buf = <<>>
  /\ err = Nil
  /\ exit = Running
  /\ steps = NoSteps
  /\ fs0 = fs

\* Every input file of at most MaxLines lines, the flags at their usual values.
InitRows ==
  /\ \E lines \in SeqsUpTo(Lines, MaxLines) :
       fs = [p \in Paths |-> IF p = protoCsv THEN File(lines) ELSE NoFile]
  /\ args = DefaultArgs
  /\ ioRead = FALSE
  /\ ioWrite = FALSE

\* Every value of the -key and -value flags, on short inputs.
InitColumns ==
  /\ \E lines \in SeqsUpTo(DataLines \cup {ShortLine}, 2) :
       fs = [p \in Paths |-> IF p = protoCsv THEN File(lines) ELSE NoFile]
  /\ \E k \in (-1)..MaxCol, v \in (-1)..MaxCol :
       args = Args(protoCsv, knownImportsGo, "proto", "KnownImports", k, v)
  /\ ioRead = FALSE
  /\ ioWrite = FALSE

\* Every setting of the four required flags, files present or absent, reads
\* and writes failing or not.
InitFlags ==
  /\ \E f \in { NoFile,
                File(<<Row(<<"k1">>, LabelPP), Row(<<"k2">>, LabelR)>>),
                File(<<Row(<<"k1">>, LabelPP), Row(<<"k1">>, LabelPN)>>),
                File(<<Row(<<"k1">>, LabelPP), ShortLine>>) },
        g \in { NoFile, File(OldOutput) } :
       fs = [p \in Paths |-> IF p = protoCsv THEN f ELSE g]
  /\ \E pc_ \in {""} \cup Paths, ki \in {""} \cup Paths,
        pk \in {"", "proto"}, vr \in {"", "KnownImports"} :
       args = Args(pc_, ki, pk, vr, 0, 1)
  /\ ioRead \in BOOLEAN
  /\ ioWrite \in BOOLEAN

Init ==
  /\ InitRows \/ InitColumns \/ InitFlags
  /\ run = 1
  /\ prev = NoPrev
  /\ Start

(* ------------------------------- run ---------------------------------- *)

\* The file at a path; no file at a path the file system does not have.
At(f, path) == IF path \in DOMAIN f THEN f[path] ELSE NoFile

\* Variant: -var is not tested.
MissingFlagNoVar ==
  IF args.proto_csv = "" THEN "-proto_csv"
  ELSE IF args.known_imports = "" THEN "-known_imports"
  ELSE IF args.package = "" THEN "-package"
  ELSE ""

\* The first required flag that is empty, in the order run tests them.
MissingFlag ==
  IF args.proto_csv = "" THEN "-proto_csv"
  ELSE IF args.known_imports = "" THEN "-known_imports"
  ELSE IF args.package = "" THEN "-package"
  ELSE IF args.var = "" THEN "-var"
  ELSE ""

\* if protoCsvPath == "" { return ... } ... if var_ == "" { return ... }
CheckFlags ==
  /\ pc = "flags"
  /\ IF MissingFlag # ""
     THEN /\ err' = Error("config", <<MissingFlag>>, NoLabel, NoLabel, 0)
          /\ pc' = "returned"
     ELSE /\ err' = err
          /\ pc' = "open"
  /\ UNCHANGED <<fs, env, handle, closes, res, i, seen, bindings, buf, exit,
                 steps, fs0, run, prev>>

\* Variant: the output file is created as soon as the input is open.
OpenOkCreatesOutput ==
  /\ pc = "open"
  /\ At(fs, args.proto_csv).exists
  /\ handle' = "open"
  /\ fs' = [fs EXCEPT ![args.known_imports] = File(<<>>)]
  /\ pc' = "read"
  /\ UNCHANGED <<env, closes, res, i, seen, bindings, buf, err, exit, steps,
                 fs0, run, prev>>

\* protoCsvFile, err := os.Open(protoCsvPath)
OpenOk ==
  /\ pc = "open"
  /\ At(fs, args.proto_csv).exists
  /\ handle' = "open"
  /\ pc' = "read"
  /\ UNCHANGED <<fs, env, closes, res, i, seen, bindings, buf, err, exit,
                 steps, fs0, run, prev>>

OpenFails ==
  /\ pc = "open"
  /\ ~At(fs, args.proto_csv).exists
  /\ err' = Error("open", <<args.proto_csv>>, NoLabel, NoLabel, 0)
  /\ pc' = "returned"
  /\ UNCHANGED <<fs, env, handle, closes, res, i, seen, bindings, buf, exit,
                 steps, fs0, run, prev>>

\* records, err := r.ReadAll()
Read ==
  /\ pc = "read"
  /\ res' = ReadAll(At(fs, args.proto_csv).lines, ioRead)
  /\ pc' = "close"
  /\ UNCHANGED <<fs, env, handle, closes, i, seen, bindings, buf, err, exit,
                 steps, fs0, run, prev>>

\* Variant: the file is closed only when the read succeeded.
CloseUnlessError ==
  /\ pc = "close"
  /\ handle' = IF res.err = Nil THEN "closed" ELSE handle
  /\ closes' = IF res.err = Nil THEN closes + 1 ELSE closes
  /\ pc' = "check"
  /\ UNCHANGED <<fs, env, res, i, seen, bindings, buf, err, exit, steps, fs0,
                 run, prev>>

\* protoCsvFile.Close()
Close ==
  /\ pc = "close"
  /\ handle' = "closed"
  /\ closes' = closes + 1
  /\ pc' = "check"
  /\ UNCHANGED <<fs, env, res, i, seen, bindings, buf, err, exit, steps, fs0,
                 run, prev>>

\* if err != nil { return err }
CheckRead ==
  /\ pc = "check"
  /\ IF res.err # Nil
     THEN /\ err' = res.err
          /\ pc' = "returned"
     ELSE /\ err' = err
          /\ pc' = "loop"
  /\ UNCHANGED <<fs, env, handle, closes, res, i, seen, bindings, buf, exit,
                 steps, fs0, run, prev>>

\* rec[col]: Go counts from 0 and panics outside 0..len(rec)-1.
InRange(rec, col) == 0 <= col /\ col < Len(rec)
Column(rec, col) == rec[col + 1]

\* for _, rec := range records
AtRow == pc = "loop" /\ i < Len(res.records)
rec == res.records[i + 1]
imp == Column(rec, args.key)
parsed == Parse(Column(rec, args.value))

\* imp := rec[keyColumn] or rec[valueColumn] with the index out of range: the
\* runtime panics, the process prints the panic and a stack trace, status 2.
RowPanic ==
  /\ AtRow
  /\ ~InRange(rec, args.key) \/ ~InRange(rec, args.value)
  /\ i' = i + 1
  /\ steps' = [steps EXCEPT !.colReads =
                 IF InRange(rec, args.key) THEN @ + 1 ELSE @]
  /\ exit' = [status |-> 2, prefix |-> "", err |-> Nil, trace |-> TRUE]
  /\ pc' = "exited"
  /\ UNCHANGED <<fs, env, handle, closes, res, seen, bindings, buf, err, fs0,
                 run, prev>>

\* Variant: the key is looked up before the value is parsed, and a row
\* whose key was seen is skipped unparsed.
RowParseErrorUnlessSeen ==
  /\ AtRow
  /\ InRange(rec, args.key) /\ InRange(rec, args.value)
  /\ parsed.err # Nil
  /\ i' = i + 1
  /\ IF imp \in DOMAIN seen
     THEN /\ steps' = [steps EXCEPT !.colReads = @ + 1]
          /\ UNCHANGED <<err, pc>>
     ELSE /\ steps' = [steps EXCEPT !.colReads = @ + 2, !.parses = @ + 1]
          /\ err' = parsed.err
          /\ pc' = "returned"
  /\ UNCHANGED <<fs, env, handle, closes, res, seen, bindings, buf, exit, fs0,
                 run, prev>>

\* lbl, err := label.Parse(rec[valueColumn]); if err != nil { return err }
RowParseError ==
  /\ AtRow
  /\ InRange(rec, args.key) /\ InRange(rec, args.value)
  /\ parsed.err # Nil
  /\ i' = i + 1
  /\ steps' = [steps EXCEPT !.colReads = @ + 2, !.parses = @ + 1]
  /\ err' = parsed.err
  /\ pc' = "returned"
  /\ UNCHANGED <<fs, env, handle, closes, res, seen, bindings, buf, exit, fs0,
                 run, prev>>

\* Variant: a later label replaces the recorded one and the run goes on.
RowConflictReplaces ==
  /\ AtRow
  /\ InRange(rec, args.key) /\ InRange(rec, args.value)
  /\ parsed.err = Nil
  /\ imp \in DOMAIN seen
  /\ ~Equal(seen[imp], parsed.lbl)
  /\ i' = i + 1
  /\ steps' = [steps EXCEPT !.colReads = @ + 2, !.parses = @ + 1]
  /\ seen' = [seen EXCEPT ![imp] = parsed.lbl]
  /\ UNCHANGED <<fs, env, pc, handle, closes, res, bindings, buf, err, exit,
                 fs0, run, prev>>

\* if seenLabel, ok := seen[imp]; ok { if !seenLabel.Equal(lbl) { return ... } }
RowConflict ==
  /\ AtRow
  /\ InRange(rec, args.key) /\ InRange(rec, args.value)
  /\ parsed.err = Nil
  /\ imp \in DOMAIN seen
  /\ ~Equal(seen[imp], parsed.lbl)
  /\ i' = i + 1
  /\ steps' = [steps EXCEPT !.colReads = @ + 2, !.parses = @ + 1]
  /\ err' = Error("conflict", imp, seen[imp], parsed.lbl, 0)
  /\ pc' = "returned"
  /\ UNCHANGED <<fs, env, handle, closes, res, seen, bindings, buf, exit, fs0,
                 run, prev>>

\* Variant: a repeated key with an equal label is appended again.
RowDuplicateAppends ==
  /\ AtRow
  /\ InRange(rec, args.key) /\ InRange(rec, args.value)
  /\ parsed.err = Nil
  /\ imp \in DOMAIN seen
  /\ Equal(seen[imp], parsed.lbl)
  /\ i' = i + 1
  /\ steps' = [steps EXCEPT !.colReads = @ + 2, !.parses = @ + 1]
  /\ bindings' = Append(bindings, [Import |-> imp, Label |-> parsed.lbl])
  /\ UNCHANGED <<fs, env, pc, handle, closes, res, seen, buf, err, exit, fs0,
                 run, prev>>

\* if seenLabel, ok := seen[imp]; ok { ...; continue }
RowDuplicate ==
  /\ AtRow
  /\ InRange(rec, args.key) /\ InRange(rec, args.value)
  /\ parsed.err = Nil
  /\ imp \in DOMAIN seen
  /\ Equal(seen[imp], parsed.lbl)
  /\ i' = i + 1
  /\ steps' = [steps EXCEPT !.colReads = @ + 2, !.parses = @ + 1]
  /\ UNCHANGED <<fs, env, pc, handle, closes, res, seen, bindings, buf, err,
                 exit, fs0, run, prev>>

\* seen[imp] = lbl; data.Bindings = append(data.Bindings, binding{imp, lbl})
RowAppend ==
  /\ AtRow
  /\ InRange(rec, args.key) /\ InRange(rec, args.value)
  /\ parsed.err = Nil
  /\ imp \notin DOMAIN seen
  /\ i' = i + 1
  /\ steps' = [steps EXCEPT !.colReads = @ + 2, !.parses = @ + 1]
  /\ seen' = (imp :> parsed.lbl) @@ seen
  /\ bindings' = Append(bindings, [Import |-> imp, Label |-> parsed.lbl])
  /\ UNCHANGED <<fs, env, pc, handle, closes, res, buf, err, exit, fs0, run,
                 prev>>

\* The range is exhausted.
LoopEnd ==
  /\ pc = "loop"
  /\ i = Len(res.records)
  /\ pc' = "render"
  /\ UNCHANGED <<fs, env, handle, closes, res, i, seen, bindings, buf, err,
                 exit, steps, fs0, run, prev>>

\* data{ProtoCsv: protoCsvPath, Package: package_, Var: var_, Bindings: ...}
Data ==
  [ProtoCsv |-> args.proto_csv, Package |-> args.package, Var |-> args.var,
   Bindings |-> bindings]

\* knownImportsTpl.Execute(knownImportsBuf, data): the template is fixed and
\* prints strings only, so it does not fail.
Render ==
  /\ pc = "render"
  /\ buf' = Execute(Data)
  /\ pc' = "write"
  /\ UNCHANGED <<fs, env, handle, closes, res, i, seen, bindings, err, exit,
                 steps, fs0, run, prev>>

\* Variant: the data is appended to what the path holds.
WrittenAppended(old, data) == File(old.lines \o data)

\* What ioutil.WriteFile leaves at the path: data, over whatever was there.
Written(old, data) == File(data)

\* What a failed WriteFile may leave: the file untouched (the open failed),
\* or created/truncated and holding some of the data.
Partial(old, data) ==
  {old} \cup { File(SubSeq(data, 1, n)) : n \in {0, Len(data) - 1} }

\* return ioutil.WriteFile(knownImportsPath, knownImportsBuf.Bytes(), 0666)
WriteOk ==
  /\ pc = "write"
  /\ ~ioWrite
  /\ fs' = [fs EXCEPT ![args.known_imports] = Written(@, buf)]
  /\ steps' = [steps EXCEPT !.writes = @ + 1]
  /\ pc' = "returned"
  /\ UNCHANGED <<env, handle, closes, res, i, seen, bindings, buf, err, exit,
                 fs0, run, prev>>

WriteFails ==
  /\ pc = "write"
  /\ ioWrite
  /\ \E f \in Partial(fs[args.known_imports], buf) :
       fs' = [fs EXCEPT ![args.known_imports] = f]
  /\ steps' = [steps EXCEPT !.writes = @ + 1]
  /\ err' = Error("write", <<args.known_imports>>, NoLabel, NoLabel, 0)
  /\ pc' = "returned"
  /\ UNCHANGED <<env, handle, closes, res, i, seen, bindings, buf, exit, fs0,
                 run, prev>>

(* ------------------------------- main --------------------------------- *)

\* run returned nil: main returns, status 0, nothing printed.
ExitOk ==
  /\ pc = "returned"
  /\ err = Nil
  /\ exit' = [status |-> 0, prefix |-> "", err |-> Nil, trace |-> FALSE]
  /\ pc' = "exited"
  /\ UNCHANGED <<fs, env, handle, closes, res, i, seen, bindings, buf, err,
                 steps, fs0, run, prev>>

\* log.Fatal(err): the prefix and the error on the error stream, status 1.
ExitFatal ==
  /\ pc = "returned"
  /\ err # Nil
  /\ exit' = [status |-> 1, prefix |-> progName, err |-> err, trace |-> FALSE]
  /\ pc' = "exited"
  /\ UNCHANGED <<fs, env, handle, closes, res, i, seen, bindings, buf, err,
                 steps, fs0, run, prev>>

\* The program is invoked again with the same command line, on the file
\* system the previous invocation left.
Rerun ==
  /\ pc = "exited"
  /\ run < MaxRuns
  /\ run' = run + 1
  /\ prev' = [input |-> At(fs0, args.proto_csv), err |-> err,
              status |-> exit.status, output |-> At(fs, args.known_imports)]
  /\ pc' = "flags"
  /\ handle' = "none"
  /\ closes' = 0
  /\ res' = NoRes
  /\ i' = 0
  /\ seen' = Empty
  /\ bindings' = <<>>
  /\ buf' = <<>>
  /\ err' = Nil
  /\ exit' = Running
  /\ steps' = NoSteps
  /\ fs0' = fs
  /\ UNCHANGED <<fs, env>>

Next ==
  \/ CheckFlags
  \/ OpenOk
  \/ OpenFails
  \/ Read
  \/ Close
  \/ CheckRead
  \/ RowPanic
  \/ RowParseError
  \/ RowConflict
  \/ RowDuplicate
  \/ RowAppend
  \/ LoopEnd
  \/ Render
  \/ WriteOk
  \/ WriteFails
  \/ ExitOk
  \/ ExitFatal
  \/ Rerun

Spec == Init /\ [][Next]_vars

(* ---------------------- what the claims speak of ---------------------- *)

Returned == pc \in {"returned", "exited"}
Succeeded == Returned /\ err = Nil /\ ~exit.trace
LoopEntered == pc \in {"loop", "render", "write"} \/ (Returned /\ res.err = Nil
                 /\ err.kind \notin {"config", "open"})
ColumnsOk == args.key \in 0..(FieldsPerRecord - 1)
             /\ args.value \in 0..(FieldsPerRecord - 1)

\* The input of this run, and the rows parsed from it.
Input == At(fs0, args.proto_csv).lines
Rows == res.records
KeyOf(n) == Rows[n][args.key + 1]
ValueOf(n) == Rows[n][args.value + 1]
LabelOf(n) == Parse(ValueOf(n)).lbl
Parses(n) == Parse(ValueOf(n)).err = Nil
PairOf(n) == [Import |-> KeyOf(n), Label |-> LabelOf(n)]
FirstWithKey(n) == CHOOSE m \in 1..n :
                     KeyOf(m) = KeyOf(n) /\ \A l \in 1..(m-1) : KeyOf(l) # KeyOf(n)
Conflicting(m, n) == /\ KeyOf(m) = KeyOf(n)
                     /\ Parses(m) /\ Parses(n)
                     /\ \/ LabelOf(m).Repo # LabelOf(n).Repo
                        \/ LabelOf(m).Pkg # LabelOf(n).Pkg
                        \/ LabelOf(m).Name # LabelOf(n).Name

\* The pairs of the rows 1..n whose key no earlier row has, in row order.
RECURSIVE FirstOccurrences(_)
FirstOccurrences(n) ==
  IF n = 0 THEN <<>>
  ELSE IF \E m \in 1..(n-1) : KeyOf(m) = KeyOf(n)
       THEN FirstOccurrences(n - 1)
       ELSE Append(FirstOccurrences(n - 1), PairOf(n))

(* C1: when run succeeds, the binding list the renderer gets is the        *)
(* sequence of (row[key], Parse(row[value])) pairs in row order without    *)
(* the rows whose key an earlier row has; without duplicate keys it is the *)
(* row sequence; a key repeated with an equal label raises no error.       *)
C1_BindingsAreFirstOccurrences ==
  /\ (pc \in {"render", "write"} \/ Succeeded) =>
       /\ bindings = FirstOccurrences(Len(Rows))
       /\ (\A m, n \in 1..Len(Rows) : m # n => KeyOf(m) # KeyOf(n)) =>
            bindings = [n \in 1..Len(Rows) |-> PairOf(n)]
       /\ pc # "render" =>
            buf = Execute([ProtoCsv |-> args.proto_csv, Package |-> args.package,
                           Var |-> args.var,
                           Bindings |-> FirstOccurrences(Len(Rows))])
  /\ (LoopEntered /\ ColumnsOk /\ pc # "loop"
        /\ (\A n \in 1..Len(Rows) : Parses(n))
        /\ (\A m, n \in 1..Len(Rows) : ~Conflicting(m, n))) =>
       err.kind \notin {"parse", "conflict"}

\* A run that succeeded on three rows, one of them repeating an earlier key
\* with another spelling of the same label.
C1_Witness ==
  /\ pc = "exited" /\ exit.status = 0
  /\ Len(Rows) = 3 /\ Len(bindings) = 2
  /\ \E m, n \in 1..3 : m < n /\ KeyOf(m) = KeyOf(n) /\ ValueOf(m) # ValueOf(n)

C3_NoPartialOutput ==
  /\ steps.writes <= 1
  /\ steps.writes = 0 => fs = fs0
  /\ steps.writes = 1 =>
       /\ Returned
       /\ MissingFlag = ""
       /\ handle = "closed" /\ res.err = Nil
       /\ i = Len(Rows)
       /\ buf = Execute(Data)
       /\ err.kind \in {"nil", "write"}
       /\ ~exit.trace
  /\ (err.kind \in {"config", "open", "read", "fieldcount", "parse", "conflict"}
        \/ exit.trace) =>
       /\ fs = fs0
       /\ steps.writes = 0

\* A run that failed on a key conflict while an earlier output was on disk.
C3_Witness ==
  /\ pc = "exited" /\ exit.status = 1 /\ err.kind = "conflict"
  /\ At(fs, args.known_imports) = File(OldOutput)

(* C4: when one of -proto_csv, -known_imports, -package, -var is empty,    *)
(* whatever the other flags are, run returns a configuration error naming  *)
(* the first empty one, and no file has been opened, read or written.      *)
C4_MissingFlagBeforeIO ==
  /\ ((args.proto_csv = "" \/ args.known_imports = "" \/ args.package = ""
         \/ args.var = "") /\ pc # "flags") =>
       /\ Returned
       /\ err.kind = "config"
       /\ err.str \in {<<"-proto_csv">>, <<"-known_imports">>, <<"-package">>,
                       <<"-var">>}
  /\ err.kind = "config" =>
       /\ handle = "none" /\ closes = 0
       /\ res = NoRes
       /\ steps = NoSteps
       /\ fs = fs0

\* A run that ended on the missing -var, every other flag set and the input
\* present.
C4_Witness ==
  /\ pc = "exited" /\ exit.status = 1
  /\ exit.err = Error("config", <<"-var">>, NoLabel, NoLabel, 0)
  /\ At(fs, args.proto_csv).exists

\* A row that is neither skipped nor of FieldsPerRecord fields.
BadRow(line) ==
  /\ line # <<>>
  /\ Head(line) # "#"
  /\ Cardinality({n \in 1..Len(line) : line[n] = ","}) + 1 # FieldsPerRecord

(* C5: when the input that was opened holds a data row whose field count   *)
(* is not 4, run fails with the field-count error (the read error, if the  *)
(* environment fails the read) for every -key and -value, and no column of *)
(* any row has been read and no label parsed.                              *)
C5_FieldCountFirst ==
  (handle # "none" /\ pc # "read" /\ \E n \in 1..Len(Input) : BadRow(Input[n])) =>
    /\ res.err.kind = IF ioRead THEN "read" ELSE "fieldcount"
    /\ res.records = <<>>
    /\ pc \in {"close", "check", "returned", "exited"}
    /\ Returned => (err = res.err /\ ~exit.trace)
    /\ steps = NoSteps
    /\ bindings = <<>> /\ seen = Empty

\* A run that failed on the field count with -key and -value out of range,
\* the short row coming after a well-formed one.
C5_Witness ==
  /\ pc = "exited" /\ exit.status = 1 /\ exit.err.kind = "fieldcount"
  /\ args.key = -1 /\ args.value = FieldsPerRecord
  /\ Len(Input) = 2 /\ ~BadRow(Input[1]) /\ BadRow(Input[2])

\* The first character of the line is '#'.
StartsWithHash(line) == line # <<>> /\ Head(line) = "#"

\* The first non-blank character of the line is '#'.
RECURSIVE FirstNonBlankIsHash(_)
FirstNonBlankIsHash(line) ==
  /\ line # <<>>
  /\ IF Head(line) \in {" ", "\t"} THEN FirstNonBlankIsHash(Tail(line))
     ELSE Head(line) = "#"

NotHashFirst(line) == ~StartsWithHash(line)
NotHashAfterBlanks(line) == ~FirstNonBlankIsHash(line)
SameRows(a, b) == a.records = b.records /\ a.err.kind = b.err.kind

(* C6 as stated: every line whose first non-blank character is '#', blanks *)
(* before it or not, is a comment; the read gives what it gives on the     *)
(* input without those lines.                                              *)
C6_BlankHashIsComment ==
  (pc \notin {"flags", "open", "read"} /\ handle # "none" /\ ~ioRead) =>
    SameRows(res, ReadAll(SelectSeq(Input, NotHashAfterBlanks), FALSE))

(* C6, amended: every line whose first character is '#' is a comment,      *)
(* wherever it stands: the read gives what it gives on the input without   *)
(* those lines.  A line with blanks before the '#' is a data row: it must  *)
(* have 4 fields, and its first field, blanks included, is a row's key.    *)
C6_HashFirstIsComment ==
  (pc \notin {"flags", "open", "read"} /\ handle # "none" /\ ~ioRead) =>
    /\ SameRows(res, ReadAll(SelectSeq(Input, NotHashFirst), FALSE))
    /\ \A n \in 1..Len(Input) :
         (FirstNonBlankIsHash(Input[n]) /\ ~StartsWithHash(Input[n])) =>
           \/ res.err.kind = "fieldcount"
           \/ \E m \in 1..Len(Rows) : Join(Rows[m]) = Input[n]
    /\ \A m \in 1..Len(Rows) : ~StartsWithHash(Join(Rows[m]))
    /\ (Succeeded /\ args.key = 0) =>
         \A n \in 1..Len(Input) :
           ~StartsWithHash(Input[n]) /\ Input[n] # <<>> =>
             \E b \in 1..Len(bindings) :
               bindings[b].Import = SplitFields(Input[n])[1]

\* A run that succeeded on a data row, a comment and a line with a blank
\* before its '#', which gave a binding.
C6_Witness ==
  /\ pc = "exited" /\ exit.status = 0
  /\ Len(Input) = 3 /\ Len(Rows) = 2 /\ Len(bindings) = 2
  /\ StartsWithHash(Input[2])
  /\ FirstNonBlankIsHash(Input[3]) /\ ~StartsWithHash(Input[3])
  /\ bindings[2].Import = <<" ", "#", "k2">>

(* C7: every run ends either in success (output written, status 0,         *)
(* nothing printed) or in an error run returned, printed with the          *)
(* program-name prefix, status non-zero; for every -key and -value.        *)
C7_TwoOutcomes ==
  pc = "exited" =>
    \/ /\ exit.status = 0 /\ err = Nil
       /\ exit.prefix = "" /\ exit.err = Nil /\ ~exit.trace
       /\ steps.writes = 1
    \/ /\ exit.status # 0 /\ err # Nil
       /\ exit.prefix = progName /\ exit.err = err /\ ~exit.trace

(* C8: an input file that was opened is closed exactly once, before the    *)
(* read result is looked at and before any binding is built, rendered or   *)
(* written, whether the read succeeded or failed; after the read stage the *)
(* handle is never open.                                                   *)
C8_ClosedOnceBeforeUse ==
  /\ closes <= 1
  /\ handle = "closed" <=> closes = 1
  /\ handle = "open" =>
       /\ pc \in {"read", "close"}
       /\ err = Nil /\ steps = NoSteps
       /\ bindings = <<>> /\ seen = Empty /\ buf = <<>>
       /\ fs = fs0
  /\ pc \in {"check", "loop", "render", "write"} => handle = "closed"
  /\ (Returned /\ err.kind \notin {"config", "open"}) => handle = "closed"
  /\ err.kind \in {"config", "open"} => handle = "none"

\* A run that returned the read's error with the handle closed.
C8_Witness ==
  /\ pc = "returned" /\ err.kind \in {"read", "fieldcount"}
  /\ handle = "closed" /\ closes = 1

(* C9: an invocation that starts with the same command line and the same   *)
(* input file content as the one before it ends the same way (same error,  *)
(* same status), and when it succeeds it leaves the same bytes at the      *)
(* output path, although the earlier output was there when it started.     *)
C9_SameInputSameOutput ==
  (run > 1 /\ pc = "exited" /\ prev.input = At(fs0, args.proto_csv)) =>
    /\ err = prev.err
    /\ exit.status = prev.status
    /\ exit.status = 0 =>
         /\ At(fs, args.known_imports) = prev.output
         /\ At(fs, args.known_imports) = File(Execute(Data))

\* A second successful run, with bindings, over the output of the first.
C9_Witness ==
  /\ run = 2 /\ pc = "exited" /\ exit.status = 0
  /\ prev.status = 0 /\ prev.input = At(fs0, args.proto_csv)
  /\ At(fs0, args.known_imports).exists
  /\ Len(bindings) = 2

\* Row n fails: its value does not parse, or an earlier row has its key
\* with another label.
Fails(n) == \/ ~Parses(n)
            \/ \E m \in 1..(n-1) : KeyOf(m) = KeyOf(n)
                                   /\ ~Equal(LabelOf(m), LabelOf(n))
FirstFailing ==
  IF \E n \in 1..Len(Rows) : Fails(n)
  THEN CHOOSE n \in 1..Len(Rows) : Fails(n) /\ \A m \in 1..(n-1) : ~Fails(m)
  ELSE 0

(* C10: with all rows of 4 fields (and the columns in range), the error    *)
(* of the binding loop is the one of the lowest row that has an unparsable *)
(* value or conflicts with an earlier row of its key: a parse error when   *)
(* the value is unparsable, the key seen before or not, a conflict error   *)
(* otherwise; the loop has taken no row after it, and a run that gets past *)
(* the loop has no such row.                                               *)
C10_FirstFailingRow ==
  (LoopEntered /\ ColumnsOk) =>
    /\ pc = "loop" => (FirstFailing = 0 \/ i < FirstFailing)
    /\ (pc \in {"render", "write"}
          \/ (Returned /\ err.kind \in {"nil", "write"})) =>
         FirstFailing = 0
    /\ (Returned /\ FirstFailing # 0) =>
         /\ i = FirstFailing
         /\ steps.parses = i /\ steps.colReads = 2 * i
         /\ err = IF Parses(i)
                  THEN Error("conflict", KeyOf(i), LabelOf(FirstWithKey(i)),
                             LabelOf(i), 0)
                  ELSE Error("parse", ValueOf(i), NoLabel, NoLabel, 0)
    /\ err.kind \in {"parse", "conflict"} => i = FirstFailing

\* A run that ended on the parse error of its second row, which repeats the
\* key of the first and is followed by a third row.
C10_Witness ==
  /\ pc = "exited" /\ exit.status = 1 /\ exit.err.kind = "parse"
  /\ Len(Rows) = 3 /\ i = 2
  /\ KeyOf(2) = KeyOf(1) /\ KeyOf(1) \in DOMAIN seen

====
